---------------------------- MODULE Spec2Model ----------------------------
(***************************************************************************)
(* The teapot client: loadTeapotGeometry (fetch and parse of /teapot.obj   *)
(* into three typed arrays) and renderTeapot (buffer upload, input         *)
(* listeners, frame loop), modelled from src/teapot.mjs.  The parser of    *)
(* src/unnamed/part_000 is the same code.                                  *)
(*                                                                         *)
(* Text is a sequence of one-character strings.  A JavaScript number is a  *)
(* record [nan, n, d]: NaN, or the rational n/d in lowest terms (d > 0).   *)
(***************************************************************************)
EXTENDS Integers, Sequences, FiniteSets, TLC

\* ------------------------------------------------------------------ bounds

\* Longest generated /teapot.obj, in lines.
MaxLines == 3

\* Frame callbacks followed before the model stops counting.
MaxFrames == 2

\* The rotation angle is followed while |rotation| <= MaxRotation (units of 0.01 rad).
MaxRotation == 6

\* Pointer clientX ranges over 0..MaxX.
MaxX == 2

\* ------------------------------------------------------- JavaScript numbers

NaN == [nan |-> TRUE, n |-> 0, d |-> 1]

Abs(x) == IF x < 0 THEN -x ELSE x

RECURSIVE Gcd(_, _)
Gcd(a, b) == IF b = 0 THEN a ELSE Gcd(b, a % b)

\* The number n/d (d > 0), in lowest terms.
Num(n, d) ==
  LET g == Gcd(Abs(n), d)
  IN  [nan |-> FALSE, n |-> n \div g, d |-> d \div g]

\* x / k for a positive integer k.
NumDiv(x, k) == IF x.nan THEN NaN ELSE Num(x.n, x.d * k)

\* x - k for an integer k.
NumSub(x, k) == IF x.nan THEN NaN ELSE Num(x.n - k * x.d, x.d)

Digits == <<"0", "1", "2", "3", "4", "5", "6", "7", "8", "9">>

IsDigit(c) == \E k \in 1..10 : Digits[k] = c

DigitVal(c) == (CHOOSE k \in 1..10 : Digits[k] = c) - 1

\* The white space String.prototype.trim, parseInt and parseFloat strip.
IsWhiteSpace(c) == c \in {" ", "\t", "\r", "\n"}

\* Index of the first character of s at or after i that is no white space.
RECURSIVE SkipWhiteSpace(_, _)
SkipWhiteSpace(s, i) ==
  IF i <= Len(s) /\ IsWhiteSpace(s[i]) THEN SkipWhiteSpace(s, i + 1) ELSE i

\* Index after the run of digits of s that starts at i.
RECURSIVE DigitsEnd(_, _)
DigitsEnd(s, i) ==
  IF i <= Len(s) /\ IsDigit(s[i]) THEN DigitsEnd(s, i + 1) ELSE i

\* Value of the digits s[i..j-1] read in base 10 (0 for none).
RECURSIVE DigitsValue(_, _, _)
DigitsValue(s, i, j) ==
  IF j <= i THEN 0 ELSE DigitsValue(s, i, j - 1) * 10 + DigitVal(s[j - 1])

RECURSIVE Pow10(_)
Pow10(k) == IF k = 0 THEN 1 ELSE 10 * Pow10(k - 1)

\* Index after an optional sign at i.
SignEnd(s, i) == IF i <= Len(s) /\ s[i] \in {"-", "+"} THEN i + 1 ELSE i

SignOf(s, i) == IF i <= Len(s) /\ s[i] = "-" THEN -1 ELSE 1

\* parseInt(s, 10): white space, an optional sign, then the longest run of
\* digits; NaN when there is no digit.  What follows the digits is ignored.
parseInt(s) ==
  LET i == SkipWhiteSpace(s, 1)
      j == SignEnd(s, i)
      k == DigitsEnd(s, j)
  IN  IF k = j THEN NaN ELSE Num(SignOf(s, i) * DigitsValue(s, j, k), 1)

\* parseFloat(s): white space, an optional sign, digits, an optional "." and
\* digits; NaN when neither run has a digit.  What follows is ignored.
\* (Exponents and "Infinity" are not in the alphabet of the generated files.)
parseFloat(s) ==
  LET i  == SkipWhiteSpace(s, 1)
      j  == SignEnd(s, i)
      k  == DigitsEnd(s, j)
      f0 == IF k <= Len(s) /\ s[k] = "." THEN k + 1 ELSE k
      f1 == DigitsEnd(s, f0)
  IN  IF k = j /\ f1 = f0
        THEN NaN
        ELSE Num(SignOf(s, i) * (DigitsValue(s, j, k) * Pow10(f1 - f0)
                                 + DigitsValue(s, f0, f1)),
                 Pow10(f1 - f0))

\* ------------------------------------------------------------------ strings

\* String.prototype.split(sep) for a one-character separator: the pieces
\* between separators, empty pieces kept; the empty string gives one empty piece.
RECURSIVE SplitFrom(_, _, _, _, _)
SplitFrom(s, sep, i, cur, acc) ==
  IF i > Len(s) THEN Append(acc, cur)
  ELSE IF s[i] = sep THEN SplitFrom(s, sep, i + 1, <<>>, Append(acc, cur))
  ELSE SplitFrom(s, sep, i + 1, Append(cur, s[i]), acc)

split(s, sep) == SplitFrom(s, sep, 1, <<>>, <<>>)

RECURSIVE TrimEnd(_)
TrimEnd(s) ==
  IF Len(s) > 0 /\ IsWhiteSpace(s[Len(s)]) THEN TrimEnd(SubSeq(s, 1, Len(s) - 1)) ELSE s

\* String.prototype.trim.
trim(s) == TrimEnd(SubSeq(s, SkipWhiteSpace(s, 1), Len(s)))

\* Array.prototype.slice(from, to) with 0-based from, exclusive to, both >= 0.
slice(a, from, to) ==
  IF from >= Len(a) THEN <<>>
  ELSE SubSeq(a, from + 1, IF to < Len(a) THEN to ELSE Len(a))

\* ------------------------------------------------------------- typed arrays

RECURSIVE IsPow2(_)
IsPow2(d) == IF d = 1 THEN TRUE ELSE IF d % 2 # 0 THEN FALSE ELSE IsPow2(d \div 2)

\* Conversion of a number to a Float32Array element: NaN stays NaN, a small
\* dyadic rational is stored exactly, anything else is stored rounded (the
\* nearest 32-bit float of n/d, kept symbolic).
ToFloat32(x) ==
  IF x.nan THEN [kind |-> "NaN", n |-> 0, d |-> 1]
  ELSE IF IsPow2(x.d) /\ Abs(x.n) < 16777216 THEN [kind |-> "exact", n |-> x.n, d |-> x.d]
  ELSE [kind |-> "rounded", n |-> x.n, d |-> x.d]

Float32Array(a) == [k \in 1..Len(a) |-> ToFloat32(a[k])]

\* ToUint16 saturating at the ends of the range instead of wrapping.
ToUint16Clamped(x) ==
  IF x.nan THEN 0
  ELSE IF x.n \div x.d < 0 THEN 0
  ELSE IF x.n \div x.d > 65535 THEN 65535
  ELSE x.n \div x.d

\* Conversion of a number to a Uint16Array element: NaN becomes 0, an integer
\* is taken modulo 2^16 (parseInt yields no fraction).
ToUint16(x) == IF x.nan THEN 0 ELSE (x.n \div x.d) % 65536

Uint16Array(a) == [k \in 1..Len(a) |-> ToUint16(a[k])]

\* ------------------------------------------------- the file at /teapot.obj

\* The generated files are described line by line, so that a property can
\* name what a line says without parsing it: a line is its leading token
\* (head), the tokens after it, and white space around it; a token is a
\* decimal integer followed by raw text, or raw text alone, and carries the
\* white space written before it (sep).

IntTok(v) == [num |-> TRUE, val |-> v, raw |-> <<>>, sep |-> <<" ">>]

\* A compound face reference: position index, then "/..." sub-indices.
RefTok(v, rest) == [num |-> TRUE, val |-> v, raw |-> rest, sep |-> <<" ">>]

RawTok(text) == [num |-> FALSE, val |-> 0, raw |-> text, sep |-> <<" ">>]

\* The token t written after the white space ws.
After(ws, t) == [t EXCEPT !.sep = ws]

LineOf(head, toks) == [head |-> head, toks |-> toks, lead |-> <<>>, trail |-> <<>>]

RECURSIVE DecDigits(_)
DecDigits(n) ==
  IF n < 10 THEN <<Digits[n + 1]>> ELSE Append(DecDigits(n \div 10), Digits[(n % 10) + 1])

\* The decimal numeral of an integer.
Dec(v) == IF v < 0 THEN <<"-">> \o DecDigits(-v) ELSE DecDigits(v)

TokText(t) == IF t.num THEN Dec(t.val) \o t.raw ELSE t.raw

RECURSIVE ToksText(_)
ToksText(toks) ==
  IF toks = <<>> THEN <<>>
  ELSE Head(toks).sep \o TokText(Head(toks)) \o ToksText(Tail(toks))

LineText(l) == l.lead \o l.head \o ToksText(l.toks) \o l.trail

RECURSIVE DocText(_)
DocText(d) ==
  IF d = <<>> THEN <<>>
  ELSE IF Len(d) = 1 THEN LineText(d[1])
  ELSE LineText(d[1]) \o <<"\n">> \o DocText(Tail(d))

V(toks) == LineOf(<<"v">>, toks)
VN(toks) == LineOf(<<"v", "n">>, toks)
F(toks) == LineOf(<<"f">>, toks)

\* The lines the generated files are made of: positions (one with a fourth
\* token, one with a non-numeric field, one a field short, one with two
\* spaces after the "v", one separated by tabs, one indented and ending in
\* "\r"), normals,
\* faces of 0, 2, 3, 4 and 5 references (plain, compound, out of range), and
\* lines that are no record.
DocLines ==
  { V(<<IntTok(0), IntTok(0), IntTok(0)>>),
    V(<<IntTok(10), IntTok(0), IntTok(-5), IntTok(1)>>),
    V(<<IntTok(5), RawTok(<<"x">>), IntTok(0)>>),
    V(<<IntTok(5), IntTok(0)>>),
    V(<<After(<<" ", " ">>, IntTok(10)), IntTok(0), IntTok(0)>>),
    V(<<After(<<"\t">>, IntTok(5)), After(<<"\t">>, IntTok(5)), After(<<"\t">>, IntTok(5))>>),
    [head |-> <<"v">>, toks |-> <<IntTok(5), IntTok(5), IntTok(0)>>,
     lead |-> <<" ", " ">>, trail |-> <<"\r">>],
    VN(<<IntTok(0), IntTok(1), IntTok(0)>>),
    VN(<<IntTok(1), RawTok(<<"y">>)>>),
    F(<<IntTok(1), IntTok(2), IntTok(3)>>),
    F(<<RefTok(1, <<"/", "1", "/", "1">>), RefTok(2, <<"/", "/", "2">>), RefTok(3, <<"/", "3">>), IntTok(4)>>),
    F(<<IntTok(0), IntTok(9), IntTok(1)>>),
    F(<<IntTok(1), IntTok(2)>>),
    F(<<IntTok(1), IntTok(2), IntTok(3), IntTok(4), IntTok(1)>>),
    F(<<>>),
    LineOf(<<>>, <<>>),
    LineOf(<<"#">>, <<RawTok(<<"c", "o", "m", "m", "e", "n", "t">>)>>),
    LineOf(<<"u", "s", "e", "m", "t", "l">>, <<RawTok(<<"f", "o", "o">>)>>) }

\* The square of the end-to-end scenario: four positions and one quad.
QuadDoc ==
  << V(<<IntTok(0), IntTok(0), IntTok(0)>>), V(<<IntTok(5), IntTok(0), IntTok(0)>>),
     V(<<IntTok(0), IntTok(5), IntTok(0)>>), V(<<IntTok(5), IntTok(5), IntTok(0)>>),
     F(<<IntTok(1), IntTok(2), IntTok(3), IntTok(4)>>) >>

\* A triangle with normals and compound references, a comment first.
TriangleDoc ==
  << LineOf(<<"#">>, <<RawTok(<<"t", "r", "i">>)>>),
     V(<<IntTok(0), IntTok(0), IntTok(0)>>), V(<<IntTok(10), IntTok(0), IntTok(0)>>),
     V(<<IntTok(0), IntTok(10), IntTok(0)>>), VN(<<IntTok(0), IntTok(0), IntTok(1)>>),
     F(<<RefTok(1, <<"/", "/", "1">>), RefTok(2, <<"/", "/", "1">>), RefTok(3, <<"/", "/", "1">>)>>) >>

\* A single position scaled by the parser: "v 10 0 0".
ScaleDoc == << V(<<IntTok(10), IntTok(0), IntTok(0)>>) >>

\* A position followed only by lines that are no record: faces of one and
\* of six references, a blank line, a comment.
IgnoredDoc ==
  << V(<<IntTok(5), IntTok(0), IntTok(0)>>),
     F(<<IntTok(1)>>),
     F(<<IntTok(1), IntTok(1), IntTok(1), IntTok(1), IntTok(1), IntTok(1)>>),
     LineOf(<<>>, <<>>),
     LineOf(<<"#">>, <<RawTok(<<"e", "n", "d">>)>>) >>

\* Faces whose references lie outside any vertex list: 0, negative, and at
\* and beyond 2^16, before and after the only position.
WrapDoc ==
  << F(<<IntTok(0), IntTok(65537), IntTok(65536)>>),
     V(<<IntTok(0), IntTok(0), IntTok(0)>>),
     F(<<IntTok(-1), RefTok(65538, <<"/", "1">>), IntTok(1), IntTok(131072)>>) >>

ScenarioDocs == {QuadDoc, TriangleDoc, ScaleDoc, IgnoredDoc, WrapDoc}

RECURSIVE SeqsUpTo(_, _)
SeqsUpTo(S, k) ==
  IF k = 0 THEN {<<>>}
  ELSE LET shorter == SeqsUpTo(S, k - 1)
       IN  shorter \cup {Append(q, x) : q \in {r \in shorter : Len(r) = k - 1}, x \in S}

\* Every file of at most MaxLines lines of DocLines, and the scenarios.
Docs == SeqsUpTo(DocLines, MaxLines) \cup ScenarioDocs

\* The files the render driver is followed on.
RenderDocs == {<<>>, QuadDoc, TriangleDoc}

\* -------------------------------------------------------------------- state

VARIABLES
  doc,        \* what the server holds at /teapot.obj, line by line (never read by the code)
  pc,         \* where renderTeapot / loadTeapotGeometry stands
  teapotText, \* the text of the response
  lines,      \* teapotText.split("\n")
  lineNo,     \* the line the for-of loop is at (1-based)
  vertices,   \* the three accumulators of the parse loop
  indexes,
  normals,
  teapotGeometry,  \* the typed arrays loadTeapotGeometry returns
  context,    \* canvas.getContext("webgl") was called
  buffers,    \* the buffers created, in order, each with its target and uploaded data
  program,    \* the shader program is linked and in use
  attribs,    \* the vertex attributes enabled, each with the buffer its pointer reads
  listeners,  \* the event listeners registered
  isDragging,
  previousMousePosition,
  rotation,   \* the rotation angle, in units of 0.01 rad
  pendingFrames,   \* frame callbacks requested and not yet run
  frames,     \* frame callbacks run
  drawCalls,  \* drawElements calls issued
  drawCount,  \* the element count of the last drawElements call
  modelViewMatrix, \* the last model-view uniform uploaded
  lastEvent   \* the event or callback the last step dispatched

loaderVars == <<doc, pc, teapotText, lines, lineNo, vertices, indexes, normals, teapotGeometry>>

glVars == <<context, buffers, program, attribs, drawCalls, drawCount, modelViewMatrix>>

inputVars == <<listeners, isDragging, previousMousePosition, rotation>>

loopVars == <<pendingFrames, frames, lastEvent>>

vars == <<loaderVars, glVars, inputVars, loopVars>>

NoEvent == [type |-> "none", clientX |-> 0, code |-> "none"]

InitState ==
  /\ pc = "init"
  /\ teapotText = <<>>
  /\ lines = <<>>
  /\ lineNo = 1
  /\ vertices = <<>>
  /\ indexes = <<>>
  /\ normals = <<>>
  /\ teapotGeometry = [indexes |-> <<>>, vertices |-> <<>>, normals |-> <<>>]
  /\ context = FALSE
  /\ buffers = <<>>
  /\ program = FALSE
  /\ attribs = {}
  /\ listeners = {}
  /\ isDragging = FALSE
  /\ previousMousePosition = <<>>
  /\ rotation = 0
  /\ pendingFrames = 0
  /\ frames = 0
  /\ drawCalls = 0
  /\ drawCount = 0
  /\ modelViewMatrix = <<>>
  /\ lastEvent = NoEvent

Init == doc \in Docs /\ InitState

InitRender == doc \in RenderDocs /\ InitState

\* ------------------------------------------------------- loadTeapotGeometry

\* case "v": the values pushed to vertices.
PositionValues(items) ==
  LET part == slice(items, 1, 4)
  IN  [k \in 1..Len(part) |-> NumDiv(parseFloat(part[k]), 5)]

\* case "vn": the values pushed to normals.
NormalValues(items) ==
  LET part == slice(items, 1, 4)
  IN  [k \in 1..Len(part) |-> parseFloat(part[k])]

\* FaceIndex without the conversion to 0-based.
FaceIndexOneBased(v) ==
  LET parts == split(v, "/")
      indices == [k \in 1..Len(parts) |-> parseInt(parts[k])]
  IN  indices[1]

\* One face reference: every "/"-separated part is parsed and made 0-based,
\* the first is kept.
FaceIndex(v) ==
  LET parts == split(v, "/")
      indices == [k \in 1..Len(parts) |-> NumSub(parseInt(parts[k]), 1)]
  IN  indices[1]

\* case "f": ndx, one index per token after the first.
FaceNdx(items) ==
  LET part == slice(items, 1, Len(items))
  IN  [k \in 1..Len(part) |-> FaceIndex(part[k])]

\* FaceTriangles with the quad fanned from its first vertex only.
FaceTrianglesFirstFan(ndx) ==
  IF Len(ndx) = 3 THEN <<ndx[1], ndx[2], ndx[3]>>
  ELSE IF Len(ndx) = 4 THEN <<ndx[1], ndx[2], ndx[3], ndx[1], ndx[3], ndx[4]>>
  ELSE <<>>

\* FaceTriangles with a default branch that keeps the first triangle of a
\* longer polygon.
FaceTrianglesDefault(ndx) ==
  IF Len(ndx) = 3 THEN <<ndx[1], ndx[2], ndx[3]>>
  ELSE IF Len(ndx) = 4 THEN <<ndx[1], ndx[2], ndx[3], ndx[3], ndx[4], ndx[1]>>
  ELSE IF Len(ndx) > 4 THEN <<ndx[1], ndx[2], ndx[3]>>
  ELSE <<>>

\* switch (ndx.length): the indexes pushed for a face.
FaceTriangles(ndx) ==
  IF Len(ndx) = 3 THEN <<ndx[1], ndx[2], ndx[3]>>
  ELSE IF Len(ndx) = 4 THEN <<ndx[1], ndx[2], ndx[3], ndx[3], ndx[4], ndx[1]>>
  ELSE <<>>

\* line.trim().split(" ")
Items(line) == split(trim(line), " ")

\* renderTeapot up to its await: the context is created and
\* loadTeapotGeometry is called, which issues the fetch.
renderTeapotStart ==
  /\ pc = "init"
  /\ pc' = "fetch"
  /\ context' = TRUE
  /\ UNCHANGED <<doc, teapotText, lines, lineNo, vertices, indexes, normals, teapotGeometry>>
  /\ UNCHANGED <<buffers, program, attribs, drawCalls, drawCount, modelViewMatrix>>
  /\ UNCHANGED <<inputVars, loopVars>>

\* await fetch("/teapot.obj") settles: a rejection propagates through
\* loadTeapotGeometry to renderTeapot, which ends there.
fetchSettles ==
  /\ pc = "fetch"
  /\ \/ pc' = "text"
     \/ pc' = "rejected"
  /\ UNCHANGED <<doc, teapotText, lines, lineNo, vertices, indexes, normals, teapotGeometry>>
  /\ UNCHANGED <<glVars, inputVars, loopVars>>

\* await teapotResponse.text() settles; on success the accumulators are
\* created and the loop starts on the first line.
textSettles ==
  /\ pc = "text"
  /\ \/ /\ pc' = "parse"
        /\ teapotText' = DocText(doc)
        /\ lines' = split(DocText(doc), "\n")
        /\ lineNo' = 1
        /\ vertices' = <<>>
        /\ indexes' = <<>>
        /\ normals' = <<>>
     \/ /\ pc' = "rejected"
        /\ UNCHANGED <<teapotText, lines, lineNo, vertices, indexes, normals>>
  /\ UNCHANGED <<doc, teapotGeometry>>
  /\ UNCHANGED <<glVars, inputVars, loopVars>>

\* One iteration of the for-of loop.
parseLine ==
  /\ pc = "parse"
  /\ lineNo <= Len(lines)
  /\ LET items == Items(lines[lineNo])
     IN  /\ vertices' = IF items[1] = <<"v">>
                          THEN vertices \o PositionValues(items) ELSE vertices
         /\ normals' = IF items[1] = <<"v", "n">>
                         THEN normals \o NormalValues(items) ELSE normals
         /\ indexes' = IF items[1] = <<"f">>
                         THEN indexes \o FaceTriangles(FaceNdx(items)) ELSE indexes
  /\ lineNo' = lineNo + 1
  /\ UNCHANGED <<doc, pc, teapotText, lines, teapotGeometry>>
  /\ UNCHANGED <<glVars, inputVars, loopVars>>

\* The loop is over: the accumulators are packed into typed arrays.
returnGeometry ==
  /\ pc = "parse"
  /\ lineNo > Len(lines)
  /\ pc' = "loaded"
  /\ teapotGeometry' = [indexes  |-> Uint16Array(indexes),
                        vertices |-> Float32Array(vertices),
                        normals  |-> Float32Array(normals)]
  /\ UNCHANGED <<doc, teapotText, lines, lineNo, vertices, indexes, normals>>
  /\ UNCHANGED <<glVars, inputVars, loopVars>>

NextLoad ==
  \/ renderTeapotStart
  \/ fetchSettles
  \/ textSettles
  \/ parseLine
  \/ returnGeometry

\* The loader alone, on every generated file.
SpecLoad == Init /\ [][NextLoad]_vars

\* ------------------------------------------------------------- renderTeapot

\* createBuffer, bindBuffer and bufferData for the three arrays, in order.
UploadedBuffers(geometry) ==
  << [target |-> "ELEMENT_ARRAY_BUFFER", data |-> geometry.indexes],
     [target |-> "ARRAY_BUFFER", data |-> geometry.vertices],
     [target |-> "ARRAY_BUFFER", data |-> geometry.normals] >>

\* enableVertexAttribArray and vertexAttribPointer for "position", reading
\* the buffer bound at that time (the second created).
PositionAttribs(geometry) == {[name |-> "position", buffer |-> 2, size |-> 3]}

\* enableVertexAttribArray and vertexAttribPointer for "normal", reading the
\* third buffer: done whatever the length of geometry.normals.
NormalAttribs(geometry) == {[name |-> "normal", buffer |-> 3, size |-> 3]}

\* addEventListener calls.
RegisteredListeners ==
  { [target |-> "canvas", type |-> "mousedown"],
    [target |-> "canvas", type |-> "mouseup"],
    [target |-> "canvas", type |-> "mouseout"],
    [target |-> "canvas", type |-> "mousemove"],
    [target |-> "window", type |-> "keydown"] }

\* requestAnimationFrame(renderLoop): one more callback pending.
requestAnimationFrame(pending) == pending + 1

\* renderTeapot going on without waiting for the geometry.
GeometryAwaitedNot == pc \in {"fetch", "loaded"}

\* await loadTeapotGeometry(): renderTeapot goes on once the geometry is returned.
GeometryAwaited == pc = "loaded"

\* renderTeapot after its await, to its end: buffers, program, attributes,
\* the drag state, the listeners, and the first frame request.
renderTeapotSetup ==
  /\ GeometryAwaited
  /\ pc' = "running"
  /\ buffers' = UploadedBuffers(teapotGeometry)
  /\ program' = TRUE
  /\ attribs' = PositionAttribs(teapotGeometry) \cup NormalAttribs(teapotGeometry)
  /\ isDragging' = FALSE
  /\ previousMousePosition' = <<>>
  /\ rotation' = 0
  /\ listeners' = RegisteredListeners
  /\ pendingFrames' = requestAnimationFrame(pendingFrames)
  /\ UNCHANGED <<doc, teapotText, lines, lineNo, vertices, indexes, normals, teapotGeometry>>
  /\ UNCHANGED <<context, drawCalls, drawCount, modelViewMatrix, frames, lastEvent>>

Listening(target, type) == [target |-> target, type |-> type] \in listeners

\* The pointer positions events carry.
MouseXs == 0..MaxX
MouseYs == {0}

KeyCodes == {"ArrowLeft", "ArrowRight", "ArrowUp", "KeyA"}

MouseEvent(type, x) == [type |-> type, clientX |-> x, code |-> "none"]

\* Dragged with the difference taken the other way round.
DraggedBackwards(angle, deltaX) == angle - deltaX

\* The angle after a drag by deltaX pixels: rotation += deltaX * 0.01.
Dragged(angle, deltaX) == angle + deltaX

\* The angle after a key: -= 0.05 for ArrowLeft, += 0.05 for ArrowRight.
Keyed(angle, code) ==
  IF code = "ArrowLeft" THEN angle - 5
  ELSE IF code = "ArrowRight" THEN angle + 5
  ELSE angle

\* mousedown on the canvas.
startDragging ==
  /\ Listening("canvas", "mousedown")
  /\ \E x \in MouseXs, y \in MouseYs :
       /\ isDragging' = TRUE
       /\ previousMousePosition' = <<x, y>>
       /\ lastEvent' = MouseEvent("mousedown", x)
  /\ UNCHANGED <<loaderVars, glVars, listeners, rotation, pendingFrames, frames>>

\* mouseup or mouseout on the canvas.
stopDragging ==
  /\ \E type \in {"mouseup", "mouseout"} :
       /\ Listening("canvas", type)
       /\ lastEvent' = MouseEvent(type, 0)
  /\ isDragging' = FALSE
  /\ UNCHANGED <<loaderVars, glVars, listeners, previousMousePosition, rotation,
                 pendingFrames, frames>>

\* mousemove on the canvas.
drag ==
  /\ Listening("canvas", "mousemove")
  /\ \E x \in MouseXs, y \in MouseYs :
       /\ lastEvent' = MouseEvent("mousemove", x)
       /\ IF isDragging
            THEN /\ rotation' = Dragged(rotation, x - previousMousePosition[1])
                 /\ Abs(rotation') <= MaxRotation
                 /\ previousMousePosition' = <<x, y>>
            ELSE UNCHANGED <<rotation, previousMousePosition>>
  /\ UNCHANGED <<loaderVars, glVars, listeners, isDragging, pendingFrames, frames>>

\* keydown on the window.
keydown ==
  /\ Listening("window", "keydown")
  /\ \E code \in KeyCodes :
       /\ lastEvent' = [type |-> "keydown", clientX |-> 0, code |-> code]
       /\ rotation' = Keyed(rotation, code)
       /\ Abs(rotation') <= MaxRotation
  /\ UNCHANGED <<loaderVars, glVars, listeners, isDragging, previousMousePosition,
                 pendingFrames, frames>>

\* The model-view matrix of renderLoop: the rotation about the vertical axis
\* by the angle (its cosines and sines kept symbolic).
RotationMatrix(angle) == <<"rotationY", angle>>

\* DrawElementsCount counting triangles instead of indexes.
DrawElementsTriangles(geometry) == Len(geometry.indexes) \div 3

\* The count renderLoop passes to drawElements.
DrawElementsCount(geometry) == Len(geometry.indexes)

\* The drawElements calls of one renderLoop run.
DrawsPerFrame == 1

\* One frame callback: the uniform, the draw call, the next frame request.
renderLoop ==
  /\ pendingFrames > 0
  /\ frames < MaxFrames
  /\ frames' = frames + 1
  /\ modelViewMatrix' = RotationMatrix(rotation)
  /\ drawCalls' = drawCalls + DrawsPerFrame
  /\ drawCount' = DrawElementsCount(teapotGeometry)
  /\ pendingFrames' = requestAnimationFrame(pendingFrames - 1)
  /\ lastEvent' = [type |-> "frame", clientX |-> 0, code |-> "none"]
  /\ UNCHANGED <<loaderVars, context, buffers, program, attribs, inputVars>>

Next ==
  \/ renderTeapotStart
  \/ fetchSettles
  \/ textSettles
  \/ parseLine
  \/ returnGeometry
  \/ renderTeapotSetup
  \/ startDragging
  \/ stopDragging
  \/ drag
  \/ keydown
  \/ renderLoop

\* The whole client, on the files of RenderDocs.
Spec == InitRender /\ [][Next]_vars

\* ------------------------------------------------- what the properties name

\* The number k as the parser holds it.
Whole(k) == [nan |-> FALSE, n |-> k, d |-> 1]

\* The number k/5 as the parser holds it (5 is prime: k/5 is in lowest terms
\* unless 5 divides k).
Fifth(k) ==
  IF k % 5 = 0 THEN [nan |-> FALSE, n |-> k \div 5, d |-> 1]
  ELSE [nan |-> FALSE, n |-> k, d |-> 5]

\* The whole number k as a Float32Array element.
F32(k) == [kind |-> "exact", n |-> k, d |-> 1]

\* A step of the parse loop is being taken (the loop moves to the next line).
LineStep == pc = "parse" /\ lineNo' = lineNo + 1

\* What the server's file says on the line the loop is at: an empty file is
\* one blank line.
CurLine == IF doc = <<>> THEN LineOf(<<>>, <<>>) ELSE doc[lineNo]


IsNumber(t) == t.num /\ t.raw = <<>>

\* A token parseFloat reads as no number: empty, or starting with a letter.
IsNoNumber(t) == ~t.num /\ (t.raw = <<>> \/ t.raw[1] \in {"x", "y"})

\* int[/int][/int]: an integer, alone or followed by "/" sub-indices.
IsReference(t) == t.num /\ (t.raw = <<>> \/ t.raw[1] = "/")

\* Every token of the line follows exactly one space.
SingleSpaced(l) == \A k \in 1..Len(l.toks) : l.toks[k].sep = <<" ">>

\* Every token of the line follows white space (spaces or tabs).
WhiteSpaced(l) ==
  \A k \in 1..Len(l.toks) :
    /\ l.toks[k].sep # <<>>
    /\ \A j \in 1..Len(l.toks[k].sep) : l.toks[k].sep[j] \in {" ", "\t"}

IsFaceLine(l) ==
  /\ l.head = <<"f">>
  /\ SingleSpaced(l)
  /\ \A k \in 1..Len(l.toks) : IsReference(l.toks[k])

Min(a, b) == IF a < b THEN a ELSE b

CountLines(d, head) == Cardinality({k \in 1..Len(d) : d[k].head = head})

\* ---------------------------------------------------------------- C1

\* C1: a face line of exactly 3 references f a b c appends exactly the
\* triangle (a-1, b-1, c-1) to the index list, and one of exactly 4
\* references f a b c d appends exactly (a-1, b-1, c-1) and (c-1, d-1, a-1),
\* a..d being the first "/"-separated part of each reference.
C1_Triangulation ==
  [][ (LineStep /\ IsFaceLine(CurLine)) =>
        LET r == CurLine.toks
        IN  /\ Len(r) = 3 =>
                 indexes' = indexes \o <<Whole(r[1].val - 1), Whole(r[2].val - 1),
                                          Whole(r[3].val - 1)>>
            /\ Len(r) = 4 =>
                 indexes' = indexes \o <<Whole(r[1].val - 1), Whole(r[2].val - 1),
                                          Whole(r[3].val - 1), Whole(r[3].val - 1),
                                          Whole(r[4].val - 1), Whole(r[1].val - 1)>>
    ]_vars

\* A plain triangle and then a quad of compound references have been read.
C1_Witness ==
  /\ pc = "parse"
  /\ lineNo = 3
  /\ doc[1] = F(<<IntTok(1), IntTok(2), IntTok(3)>>)
  /\ Len(doc[2].toks) = 4
  /\ IsFaceLine(doc[2])
  /\ doc[2].toks[1].raw # <<>>
  /\ indexes = <<Whole(0), Whole(1), Whole(2),
                 Whole(0), Whole(1), Whole(2), Whole(2), Whole(3), Whole(0)>>

\* ---------------------------------------------------------------- C2

\* Every line matches the line grammar: v or vn with three numbers, f with
\* 3 or 4 one-based integer references, or a line that is ignored.
WellFormedLine(l) ==
  \/ /\ l.head \in {<<"v">>, <<"v", "n">>}
     /\ SingleSpaced(l)
     /\ Len(l.toks) >= 3
     /\ \A k \in 1..3 : IsNumber(l.toks[k])
  \/ /\ IsFaceLine(l)
     /\ Len(l.toks) \in {3, 4}
     /\ \A k \in 1..Len(l.toks) : l.toks[k].val >= 1
  \/ l.head \notin {<<"v">>, <<"v", "n">>, <<"f">>}

WellFormed(d) == \A k \in 1..Len(d) : WellFormedLine(d[k])

\* Every reference of every face is at most the number of v lines of the file.
ReferencesInRange(d) ==
  \A k \in 1..Len(d) :
    d[k].head = <<"f">> =>
      \A j \in 1..Len(d[k].toks) : d[k].toks[j].val <= CountLines(d, <<"v">>)

IndexBufferSound ==
  /\ Len(teapotGeometry.indexes) % 3 = 0
  /\ \A k \in 1..Len(teapotGeometry.indexes) :
       3 * teapotGeometry.indexes[k] < Len(teapotGeometry.vertices)

\* C2 as stated: for every well-formed file the index buffer's length is a
\* multiple of 3 and every index is below the vertex count.
C2_AsStated == (pc = "loaded" /\ WellFormed(doc)) => IndexBufferSound

\* C2 amended: for every well-formed file whose face references are all at
\* most the number of v lines, the index buffer's length is a multiple of 3
\* and every index is below the vertex count.
C2_InRange ==
  (pc = "loaded" /\ WellFormed(doc) /\ ReferencesInRange(doc)) => IndexBufferSound

\* The square has been loaded: two triangles over four vertices.
C2_Witness ==
  /\ pc = "loaded"
  /\ doc = QuadDoc
  /\ WellFormed(doc) /\ ReferencesInRange(doc)
  /\ teapotGeometry.indexes = <<0, 1, 2, 2, 3, 0>>
  /\ Len(teapotGeometry.vertices) = 12

\* ---------------------------------------------------------------- C3

\* A v or vn line with a malformed numeric field: one of its first three
\* fields is missing or is no number.
MalformedLine(l) ==
  /\ l.head \in {<<"v">>, <<"v", "n">>}
  /\ SingleSpaced(l)
  /\ \A k \in 1..Min(3, Len(l.toks)) : IsNumber(l.toks[k]) \/ IsNoNumber(l.toks[k])
  /\ \/ Len(l.toks) < 3
     \/ \E k \in 1..Min(3, Len(l.toks)) : IsNoNumber(l.toks[k])

\* C3: a v or vn line with a malformed numeric field is skipped: it adds
\* nothing to positions, normals or indexes and raises no error.
C3_MalformedSkipped ==
  [][ (LineStep /\ MalformedLine(CurLine)) =>
        (pc' = "parse" /\ UNCHANGED <<vertices, normals, indexes>>) ]_vars

\* ---------------------------------------------------------------- C4

\* A line that is no record: blank, an unknown leading token, or a face of
\* 0, 1, 2, or 5 or more references.
NoRecordLine(l) ==
  \/ l.head \notin {<<"v">>, <<"v", "n">>, <<"f">>}
  \/ IsFaceLine(l) /\ Len(l.toks) \notin {3, 4}

\* C4: a line that produces no record leaves positions, normals and indexes
\* unchanged and raises no error.
C4_NoRecordNoEffect ==
  [][ (LineStep /\ NoRecordLine(CurLine)) =>
        (pc' = "parse" /\ UNCHANGED <<vertices, normals, indexes>>) ]_vars

\* A position, then a face of five references and a comment, have been read.
C4_Witness ==
  /\ pc = "parse"
  /\ lineNo = 4
  /\ doc[1] = V(<<IntTok(0), IntTok(0), IntTok(0)>>)
  /\ doc[2].head = <<"f">> /\ Len(doc[2].toks) = 5
  /\ doc[3].head = <<"#">>
  /\ vertices = <<Whole(0), Whole(0), Whole(0)>>
  /\ indexes = <<>>
  /\ normals = <<>>

\* ---------------------------------------------------------------- C5

\* C5: after any file (here: any whose tokens are separated by one space
\* each), positions holds exactly 3 values per v line and normals exactly 3
\* per vn line.
C5_ThreePerLine ==
  (pc = "loaded" /\ \A k \in 1..Len(doc) : SingleSpaced(doc[k])) =>
    /\ Len(teapotGeometry.vertices) = 3 * CountLines(doc, <<"v">>)
    /\ Len(teapotGeometry.normals) = 3 * CountLines(doc, <<"v", "n">>)

\* ---------------------------------------------------------------- C6

\* A v or vn line of at least three numbers.
NumbersLine(l) ==
  /\ l.head \in {<<"v">>, <<"v", "n">>}
  /\ Len(l.toks) >= 3
  /\ \A k \in 1..Len(l.toks) : IsNumber(l.toks[k])

\* What the line is to append: its first three numbers, a v line's divided by 5.
Appended(l) ==
  IF l.head = <<"v">>
    THEN <<Fifth(l.toks[1].val), Fifth(l.toks[2].val), Fifth(l.toks[3].val)>>
    ELSE <<Whole(l.toks[1].val), Whole(l.toks[2].val), Whole(l.toks[3].val)>>

AppendsNumbers(l) ==
  /\ l.head = <<"v">> => vertices' = vertices \o Appended(l) /\ normals' = normals
  /\ l.head = <<"v", "n">> => normals' = normals \o Appended(l) /\ vertices' = vertices
  /\ indexes' = indexes

\* The square of the end-to-end scenario gives the buffers the scenario names.
QuadBuffers ==
  (pc = "loaded" /\ doc = QuadDoc) =>
    /\ teapotGeometry.vertices = <<F32(0), F32(0), F32(0), F32(1), F32(0), F32(0),
                                   F32(0), F32(1), F32(0), F32(1), F32(1), F32(0)>>
    /\ teapotGeometry.indexes = <<0, 1, 2, 2, 3, 0>>
    /\ teapotGeometry.normals = <<>>

\* C6: a v or vn line is split on white space and its tokens 2-4 are read as
\* three numbers: v x y z ... appends (x/5, y/5, z/5) to positions, vn x y z
\* ... appends (x, y, z) to normals.
C6_SplitOnWhiteSpace ==
  [][ (LineStep /\ NumbersLine(CurLine) /\ WhiteSpaced(CurLine)) =>
        AppendsNumbers(CurLine) ]_vars

\* C6 for lines whose tokens are separated by exactly one space each: the
\* numbers are appended as C6 says, and the square gives the scenario's buffers.
C6_SplitOnSingleSpace ==
  [][ /\ (LineStep /\ NumbersLine(CurLine) /\ SingleSpaced(CurLine)) =>
           AppendsNumbers(CurLine)
      /\ QuadBuffers' ]_vars

\* ---------------------------------------------------------------- C7

\* C7: when the mesh has no normals, renderTeapot neither enables nor points
\* the "normal" vertex attribute.
C7_NormalSkipped ==
  (pc = "running" /\ Len(teapotGeometry.normals) = 0) =>
    \A a \in attribs : a.name # "normal"

\* ---------------------------------------------------------------- C8

\* A buffer, the program, an attribute, a listener, a frame request, a frame
\* or a draw call exists.
DriverStarted ==
  \/ buffers # <<>>
  \/ program
  \/ attribs # {}
  \/ listeners # {}
  \/ pendingFrames > 0
  \/ frames > 0
  \/ drawCalls > 0

\* The response text was read, the loop has passed its last line and the
\* typed arrays hold the accumulators.
LoadCompleted ==
  /\ teapotText = DocText(doc)
  /\ lines # <<>>
  /\ lineNo = Len(lines) + 1
  /\ Len(teapotGeometry.indexes) = Len(indexes)
  /\ Len(teapotGeometry.vertices) = Len(vertices)
  /\ Len(teapotGeometry.normals) = Len(normals)

\* C8: the fetch and parse complete before any GPU resource is created and
\* before the first frame is requested, what is uploaded is what the loader
\* returned, and after a failed load no buffer, listener, frame or draw call
\* ever exists.
C8_LoadBeforeSetup ==
  /\ [](DriverStarted => (LoadCompleted /\ pc = "running"))
  /\ [](DriverStarted =>
          /\ Len(buffers) = 3
          /\ buffers[1].data = teapotGeometry.indexes
          /\ buffers[2].data = teapotGeometry.vertices
          /\ buffers[3].data = teapotGeometry.normals)
  /\ [](pc = "rejected" => ~DriverStarted)
  /\ [][pc = "rejected" => pc' = "rejected"]_vars

\* The load has failed after the context was created, and nothing was set up.
C8_Witness ==
  /\ pc = "rejected"
  /\ context
  /\ doc = QuadDoc
  /\ ~DriverStarted

\* ---------------------------------------------------------------- C9

\* C9: once the loop has started, every frame callback issues exactly one
\* draw call, over the whole index buffer, and requests exactly one next
\* frame, so that exactly one callback is pending at any time; nothing is
\* drawn outside a frame, and no frame fetches, parses, uploads or changes
\* the mesh buffers.
C9_OneDrawPerFrame ==
  /\ [][ frames' # frames =>
            /\ frames' = frames + 1
            /\ drawCalls' = drawCalls + 1
            /\ drawCount' = Len(teapotGeometry.indexes)
            /\ pendingFrames' = 1
            /\ UNCHANGED <<loaderVars, buffers, attribs, program>> ]_vars
  /\ [][ drawCalls' # drawCalls => frames' # frames ]_vars
  /\ [](pc = "running" => pendingFrames = 1)
  /\ [](drawCalls = frames)

\* Two frames of the square have been drawn, six indexes each.
C9_Witness ==
  /\ doc = QuadDoc
  /\ frames = 2
  /\ drawCalls = 2
  /\ drawCount = 6
  /\ pendingFrames = 1

\* ---------------------------------------------------------------- C10

\* C10: the rotation angle changes only by a mousemove during a drag, which
\* adds the pointer's move since the previous mousedown or mousemove of that
\* drag (0.01 rad a pixel), and by ArrowLeft / ArrowRight, which subtract /
\* add 0.05 rad; a drag is active from a mousedown to the next mouseup or
\* mouseout; every other event and the frame callback leave the angle as it
\* is, the frame callback uploading the rotation by it.
C10_RotationSources ==
  [][ LET e == lastEvent'
      IN  /\ (e.type = "mousemove" /\ isDragging) =>
                 /\ rotation' = rotation + (e.clientX - previousMousePosition[1])
                 /\ previousMousePosition'[1] = e.clientX
          /\ (e.type = "keydown" /\ e.code = "ArrowLeft") => rotation' = rotation - 5
          /\ (e.type = "keydown" /\ e.code = "ArrowRight") => rotation' = rotation + 5
          /\ ~ \/ e.type = "mousemove" /\ isDragging
               \/ e.type = "keydown" /\ e.code \in {"ArrowLeft", "ArrowRight"}
             => rotation' = rotation
          /\ e.type = "mousedown" =>
                 isDragging' /\ previousMousePosition'[1] = e.clientX
          /\ e.type \in {"mouseup", "mouseout"} => ~isDragging'
          /\ e.type \notin {"mousedown", "mouseup", "mouseout"} =>
                 isDragging' = isDragging
          /\ e.type \notin {"mousedown", "mousemove"} =>
                 previousMousePosition' = previousMousePosition
          /\ e.type = "frame" => modelViewMatrix' = <<"rotationY", rotation>>
    ]_vars

\* ArrowRight, then a drag two pixels to the left, then a frame.
C10_Witness ==
  /\ rotation = 3
  /\ isDragging
  /\ previousMousePosition = <<0, 0>>
  /\ lastEvent.type = "frame"
  /\ modelViewMatrix = <<"rotationY", 3>>

\* ---------------------------------------------------------------- C11

\* (r - 1) mod 65536 for -65535 <= r <= 131072, without the modulo operator.
Stored(r) ==
  IF r - 1 < 0 THEN r - 1 + 65536
  ELSE IF r - 1 >= 65536 THEN r - 1 - 65536
  ELSE r - 1

\* What a face line is to leave in the index buffer: its references, stored,
\* as one triangle or as the two triangles of a quad.
StoredFace(l) ==
  LET r == [k \in 1..Len(l.toks) |-> Stored(l.toks[k].val)]
  IN  IF Len(r) = 3 THEN <<r[1], r[2], r[3]>>
      ELSE IF Len(r) = 4 THEN <<r[1], r[2], r[3], r[3], r[4], r[1]>>
      ELSE <<>>

RECURSIVE StoredFaces(_)
StoredFaces(d) ==
  IF d = <<>> THEN <<>>
  ELSE (IF Head(d).head = <<"f">> THEN StoredFace(Head(d)) ELSE <<>>)
       \o StoredFaces(Tail(d))

\* Some face of 3 or 4 references names a position the file does not have.
HasOutOfRange(d) ==
  \E k \in 1..Len(d) :
    /\ d[k].head = <<"f">>
    /\ Len(d[k].toks) \in {3, 4}
    /\ \E j \in 1..Len(d[k].toks) :
         d[k].toks[j].val < 1 \/ d[k].toks[j].val > CountLines(d, <<"v">>)

\* C11: no face reference is detected or rejected as out of range: for every
\* integer reference r of a face of 3 or 4 references the index buffer holds
\* (r - 1) mod 65536, whatever the number of positions read, and the parse
\* ends without error.
C11_ReferencesWrap ==
  /\ (pc = "loaded" /\ \A k \in 1..Len(doc) : (doc[k].head = <<"f">> => IsFaceLine(doc[k]))) =>
        teapotGeometry.indexes = StoredFaces(doc)
  /\ (pc = "parse" /\ lineNo > Len(lines)) => Len(indexes) = Len(StoredFaces(doc))

\* The file of out-of-range references has been loaded: 0 is stored as
\* 65535, 65537 as 0, -1 as 65534.
C11_Witness ==
  /\ pc = "loaded"
  /\ doc = WrapDoc
  /\ HasOutOfRange(doc)
  /\ teapotGeometry.indexes =
       <<65535, 0, 65535, 65534, 1, 0, 0, 65535, 65534>>
  /\ Len(teapotGeometry.vertices) = 3

=============================================================================
